---------------------------- MODULE Spec2Model ----------------------------
(***************************************************************************)
(* The customer-churn notebook (xgboost_customer_churn.ipynb) run top to   *)
(* bottom, as a state machine.  The kernel namespace is the state; every   *)
(* code cell (or statement of a cell) is an action.  A call into AWS / the *)
(* SageMaker SDK is two actions: the call is issued (appended to calls)    *)
(* and it returns (its outcome appended to results), either normally or by *)
(* raising.  Text is a sequence of tokens; the test file is a sequence of  *)
(* characters.                                                             *)
(***************************************************************************)
EXTENDS Integers, Sequences, FiniteSets

VARIABLES
    pc,                 \* statement the kernel executes next
    region_name,        \* sess.region_name (configuration of the session)
    caller_account,     \* account the STS service reports
    test_sample,        \* content of data/test_sample.csv (what decodes of it)
    sample_status,      \* that file is readable, missing, or does not decode
    header_csv_exists,  \* data/training-dataset-with-header.csv is there
    sess,               \* the name sess: boto3 session, then sagemaker session
    role,               \* execution role returned by get_execution_role()
    account_id, bucket, s3url,
    docker_image_name,
    s3_input_train, s3_input_validation,
    hyperparams,
    xgb, framework_xgb,
    endpoint_name,
    xgb_predictor,
    f,                  \* lines the open file has still to yield
    row, payload, response,
    slept,              \* number of time.sleep(0.5) delays elapsed
    printed,            \* cell outputs, in order
    calls, results,     \* external calls issued / outcomes returned
    raised,             \* exceptions raised so far, caught or not
    buckets, objects, endpoints   \* what exists in the account

vars == << pc, region_name, caller_account, test_sample, sample_status,
           header_csv_exists, raised, sess, role,
           account_id,
           bucket, s3url, docker_image_name, s3_input_train,
           s3_input_validation, hyperparams, xgb, framework_xgb,
           endpoint_name, xgb_predictor, f, row, payload, response, slept,
           printed, calls, results, buckets, objects, endpoints >>

(* ------------------------------ inputs --------------------------------- *)
MaxFileLen == 4
Chars == {"0", "\n", "\r"}
Regions == {"us-east-1", "eu-west-1"}
Accounts == {"111122223333"}
Timestamps == {"2020-05-01-10-00-00", "2020-05-01-10-00-01"}
Responses == {"0.02", "0.97"}

Files == UNION {[1..n -> Chars] : n \in 0..MaxFileLen}

(* ------------------------- text and file helpers ----------------------- *)
\* 'sagemaker-{}-{}'.format(region, account)
BucketName(region, account) == <<"sagemaker-", region, "-", account>>

prefix == <<"xgboost-churn">>

\* 's3://{}/{}/{}'.format(b, p, leaf)
S3Path(b, p, leaf) == <<"s3://">> \o b \o <<"/">> \o p \o <<"/">> \o leaf

\* 's3://{}/{}/validation/'.format(b, p)
S3PathSlash(b, p, leaf) == S3Path(b, p, leaf) \o <<"/">>

EndpointBase == "demo-xgboost-customer-churn-"

\* "demo-xgboost-customer-churn-" + strftime(...)
EndpointName(t) == <<EndpointBase, t>>

BucketMessage == <<"Looks like you already have a bucket of this name. That's good. Uploading the data files...">>

HyperParams == [max_depth |-> 5, subsample |-> "0.8", num_round |-> 600,
                eta |-> "0.2", gamma |-> 4, min_child_weight |-> 6,
                silent |-> 0, objective |-> "binary:logistic"]

NoHyperParams == [max_depth |-> 0, subsample |-> "", num_round |-> 0,
                  eta |-> "", gamma |-> 0, min_child_weight |-> 0,
                  silent |-> 0, objective |-> ""]

\* sagemaker.s3_input(s3_data=..., content_type=...)
s3_input(data, ctype) == [s3_data |-> data, content_type |-> ctype]

NoInput == s3_input(<< >>, "")
NoEstimator == [mode |-> "", image_name |-> << >>, role |-> "",
                hyperparameters |-> NoHyperParams, session |-> "", job |-> ""]
NoPredictor == [endpoint |-> << >>, content_type |-> "", serializer |-> "",
                deserializer |-> ""]

\* s.find(ch) from position i on, 1-based; 0 when absent
RECURSIVE Find(_, _, _)
Find(s, ch, i) ==
    IF i > Len(s) THEN 0
    ELSE IF s[i] = ch THEN i ELSE Find(s, ch, i + 1)

FirstNewline(s, i) == Find(s, "\n", i)

\* open(..., 'r') decodes with universal newlines: "\r\n" and a lone "\r"
\* both reach the program as "\n"
RECURSIVE UniversalNewlines(_)
UniversalNewlines(s) ==
    IF s = << >> THEN << >>
    ELSE IF s[1] = "\r"
         THEN IF Len(s) >= 2 /\ s[2] = "\n"
              THEN <<"\n">> \o UniversalNewlines(SubSeq(s, 3, Len(s)))
              ELSE <<"\n">> \o UniversalNewlines(Tail(s))
         ELSE <<s[1]>> \o UniversalNewlines(Tail(s))

RECURSIVE LinesSplit(_)
LinesSplit(s) ==
    LET k == FirstNewline(s, 1) IN
    IF k = 0 THEN <<s>>
    ELSE <<SubSeq(s, 1, k)>> \o LinesSplit(SubSeq(s, k + 1, Len(s)))

\* iteration over decoded text: each line keeps its terminating "\n"; the
\* last line has none when the text does not end in one
RECURSIVE Lines(_)
Lines(s) ==
    IF s = << >> THEN << >>
    ELSE LET k == FirstNewline(s, 1) IN
         IF k = 0 THEN <<s>>
         ELSE <<SubSeq(s, 1, k)>> \o Lines(SubSeq(s, k + 1, Len(s)))

ReadLinesSplit(s) == LinesSplit(UniversalNewlines(s))

\* the rows 'for row in f' yields for a file of content s
ReadLines(s) == Lines(UniversalNewlines(s))

rstripNone(s, ch) == s

\* str.rstrip(ch): every trailing ch is removed
RECURSIVE rstrip(_, _)
rstrip(s, ch) ==
    IF s # << >> /\ s[Len(s)] = ch THEN rstrip(SubSeq(s, 1, Len(s) - 1), ch)
    ELSE s

(* ----------------------------- control --------------------------------- *)
\* the statements in notebook order; the for loop is entered at "for_row"
FlowFitsSwapped ==
    << "session", "read_csv", "get_caller_identity", "create_bucket",
       "upload_train", "upload_validation", "get_image_uri", "s3_input",
       "hyperparams", "pygmentize", "framework_fit", "xgb_fit", "endpoint_name", "deploy",
       "predictor_config", "open", "for_row", "delete_endpoint", "done" >>

Flow ==
    << "session", "read_csv", "get_caller_identity", "create_bucket",
       "upload_train", "upload_validation", "get_image_uri", "s3_input",
       "hyperparams", "xgb_fit", "pygmentize", "framework_fit", "endpoint_name", "deploy",
       "predictor_config", "open", "for_row", "delete_endpoint", "done" >>

Pos(step) == CHOOSE i \in 1..Len(Flow) : Flow[i] = step
Succ(step) == Flow[Pos(step) + 1]

InFlight == Len(calls) > Len(results)

\* an exception leaves statement step uncaught: the run stops there
Throw(step) ==
    /\ raised' = Append(raised, [step |-> step, caught |-> FALSE])
    /\ pc' = "failed"

\* an exception of statement step is caught by an except clause
Catch(step) == raised' = Append(raised, [step |-> step, caught |-> TRUE])

\* an external call is issued
Issue(step, c) ==
    /\ pc = step
    /\ ~InFlight
    /\ calls' = Append(calls, c)
    /\ UNCHANGED << results, raised >>

\* the call in flight returns normally
Returns(step) ==
    /\ pc = step
    /\ InFlight
    /\ results' = Append(results, "ok")
    /\ UNCHANGED << calls, raised >>

\* the call in flight raises and nothing catches it: the run stops
Raises(step) ==
    /\ pc = step
    /\ InFlight
    /\ results' = Append(results, "raise")
    /\ Throw(step)
    /\ UNCHANGED calls

\* print(...) in a cell
Output(cell, text) == printed' = Append(printed, [cell |-> cell, text |-> text])

Init ==
    /\ pc = Flow[1]
    /\ region_name \in Regions
    /\ caller_account \in Accounts
    /\ sample_status \in {"readable", "missing", "undecodable"}
    /\ test_sample \in (IF sample_status = "missing" THEN {<< >>} ELSE Files)
    /\ header_csv_exists \in BOOLEAN
    /\ raised = << >>
    /\ sess = ""
    /\ role = ""
    /\ account_id = ""
    /\ bucket = << >>
    /\ s3url = << >>
    /\ docker_image_name = << >>
    /\ s3_input_train = NoInput
    /\ s3_input_validation = NoInput
    /\ hyperparams = NoHyperParams
    /\ xgb = NoEstimator
    /\ framework_xgb = NoEstimator
    /\ endpoint_name = << >>
    /\ xgb_predictor = NoPredictor
    /\ f = << >>
    /\ row = << >>
    /\ payload = << >>
    /\ response = ""
    /\ slept = 0
    /\ printed = << >>
    /\ calls = << >>
    /\ results = << >>
    /\ buckets \in {{}, {BucketName(region_name, caller_account)}}
    /\ objects = {}
    /\ endpoints = {}

(* ------------------------- groups of variables ------------------------- *)
cfg == << region_name, caller_account, test_sample, sample_status,
         header_csv_exists >>
dataNames == << account_id, bucket, s3url, docker_image_name,
                s3_input_train, s3_input_validation, hyperparams >>
modelNames == << xgb, framework_xgb, endpoint_name, xgb_predictor >>
loopNames == << f, row, payload, response, slept >>
world == << buckets, objects, endpoints >>

LastCall == calls[Len(calls)]

(* ---------------- cell: sess, sm, role (lines 64-66) ------------------- *)
ExecutionRole == "arn:aws:iam::role/execution-role"

SessionCall ==
    /\ Issue("session", [op |-> "get_execution_role"])
    /\ sess' = "boto3.Session"
    /\ UNCHANGED << pc, cfg, role, dataNames, modelNames, loopNames, printed, world >>

SessionReturn ==
    /\ \/ /\ Returns("session")
          /\ role' = ExecutionRole
          /\ pc' = Succ("session")
       \/ /\ Raises("session")
          /\ UNCHANGED role
    /\ UNCHANGED << cfg, sess, dataNames, modelNames, loopNames, printed, world >>

(* ---------------- cell: pd.read_csv (lines 92-96) ---------------------- *)
ReadCsv ==
    /\ pc = "read_csv"
    /\ IF header_csv_exists
       THEN pc' = Succ("read_csv") /\ UNCHANGED raised
       ELSE Throw("read_csv")
    /\ UNCHANGED << cfg, sess, role, dataNames, modelNames, loopNames, printed,
                    calls, results, world >>

(* ---------------- cell: bucket and uploads (lines 112-129) ------------- *)
GetCallerIdentityCall ==
    /\ Issue("get_caller_identity",
             [op |-> "get_caller_identity", region_name |-> region_name])
    /\ UNCHANGED << pc, cfg, sess, role, dataNames, modelNames, loopNames, printed,
                    world >>

GetCallerIdentityReturn ==
    /\ \/ /\ Returns("get_caller_identity")
          /\ account_id' = caller_account
          /\ bucket' = BucketName(region_name, account_id')
          /\ pc' = Succ("get_caller_identity")
       \/ /\ Raises("get_caller_identity")
          /\ UNCHANGED << account_id, bucket >>
    /\ UNCHANGED << cfg, sess, role, s3url, docker_image_name, s3_input_train,
                    s3_input_validation, hyperparams, modelNames, loopNames,
                    printed, world >>

CreateBucketArgsAlways(region, b) ==
    [op |-> "create_bucket", Bucket |-> b, hasConfig |-> TRUE,
     LocationConstraint |-> region]

\* the if/else on sess.region_name inside the try
CreateBucketArgs(region, b) ==
    IF region = "us-east-1"
    THEN [op |-> "create_bucket", Bucket |-> b, hasConfig |-> FALSE,
          LocationConstraint |-> ""]
    ELSE [op |-> "create_bucket", Bucket |-> b, hasConfig |-> TRUE,
          LocationConstraint |-> region]

CreateBucketCall ==
    /\ Issue("create_bucket", CreateBucketArgs(region_name, bucket))
    /\ UNCHANGED << pc, cfg, sess, role, dataNames, modelNames, loopNames, printed,
                    world >>

CreateBucketReturns ==
    /\ Returns("create_bucket")
    /\ buckets' = buckets \cup {LastCall.Bucket}
    /\ pc' = Succ("create_bucket")
    /\ UNCHANGED << cfg, sess, role, dataNames, modelNames, loopNames, printed,
                    objects, endpoints >>

CreateBucketRaisesUncaught ==
    /\ Raises("create_bucket")
    /\ UNCHANGED << cfg, sess, role, dataNames, modelNames, loopNames, printed,
                    world >>

\* except Exception as e: print(...), then the cell goes on
CreateBucketRaises ==
    /\ pc = "create_bucket"
    /\ InFlight
    /\ results' = Append(results, "raise")
    /\ Catch("create_bucket")
    /\ Output("create_bucket", BucketMessage)
    /\ pc' = Succ("create_bucket")
    /\ UNCHANGED << cfg, sess, role, dataNames, modelNames, loopNames, calls,
                    world >>

\* S3Uploader.upload(local, uri): the object lands under uri
UploadedUri(local, uri) == uri \o <<"/", local.name>>

\* the bucket of 's3://<bucket>/<key prefix>'
BucketOf(uri) == SubSeq(uri, 2, Find(uri, "/", 2) - 1)

TrainFile == [dir |-> "data", name |-> "train.csv"]
ValidationFile == [dir |-> "data", name |-> "validation.csv"]

UploadTrainCall ==
    /\ Issue("upload_train",
             [op |-> "upload", local_path |-> TrainFile,
              desired_s3_uri |-> S3Path(bucket, prefix, <<"train">>)])
    /\ UNCHANGED << pc, cfg, sess, role, dataNames, modelNames, loopNames, printed,
                    world >>

UploadTrainReturns ==
    /\ Returns("upload_train")
    /\ BucketOf(LastCall.desired_s3_uri) \in buckets
    /\ s3url' = UploadedUri(LastCall.local_path, LastCall.desired_s3_uri)
    /\ objects' = objects \cup {s3url'}
    /\ Output("upload", s3url')
    /\ pc' = Succ("upload_train")
    /\ UNCHANGED << cfg, sess, role, account_id, bucket, docker_image_name,
                    s3_input_train, s3_input_validation, hyperparams,
                    modelNames, loopNames, buckets, endpoints >>

UploadTrainRaisesSwallowed ==
    /\ pc = "upload_train"
    /\ InFlight
    /\ results' = Append(results, "raise")
    /\ Catch("upload_train")
    /\ pc' = Succ("upload_train")
    /\ UNCHANGED << cfg, sess, role, dataNames, modelNames, loopNames, printed,
                    calls, world >>

UploadTrainRaises ==
    /\ Raises("upload_train")
    /\ UNCHANGED << cfg, sess, role, dataNames, modelNames, loopNames, printed,
                    world >>

UploadValidationCall ==
    /\ Issue("upload_validation",
             [op |-> "upload", local_path |-> ValidationFile,
              desired_s3_uri |-> S3Path(bucket, prefix, <<"validation">>)])
    /\ UNCHANGED << pc, cfg, sess, role, dataNames, modelNames, loopNames, printed,
                    world >>

UploadValidationReturn ==
    /\ \/ /\ Returns("upload_validation")
          /\ BucketOf(LastCall.desired_s3_uri) \in buckets
          /\ s3url' = UploadedUri(LastCall.local_path, LastCall.desired_s3_uri)
          /\ objects' = objects \cup {s3url'}
          /\ Output("upload", s3url')
          /\ pc' = Succ("upload_validation")
       \/ /\ Raises("upload_validation")
          /\ UNCHANGED << s3url, objects, printed >>
    /\ UNCHANGED << cfg, sess, role, account_id, bucket, docker_image_name,
                    s3_input_train, s3_input_validation, hyperparams,
                    modelNames, loopNames, buckets, endpoints >>

(* ---------------- cell: get_image_uri (lines 150-151) ------------------ *)
GetImageUri ==
    /\ pc = "get_image_uri"
    /\ docker_image_name' = <<region_name, "xgboost">>
    /\ pc' = Succ("get_image_uri")
    /\ UNCHANGED << raised, cfg, sess, role, account_id, bucket, s3url, s3_input_train,
                    s3_input_validation, hyperparams, modelNames, loopNames,
                    printed, calls, results, world >>

(* ---------------- cell: s3_input (lines 167-168) ----------------------- *)
TrainChannel(b, p) == s3_input(S3Path(b, p, <<"train">>), "csv")

ValidationChannelCopied(b, p) == s3_input(S3Path(b, p, <<"train">>), "csv")

ValidationChannel(b, p) == s3_input(S3PathSlash(b, p, <<"validation">>), "csv")

S3Input ==
    /\ pc = "s3_input"
    /\ s3_input_train' = TrainChannel(bucket, prefix)
    /\ s3_input_validation' = ValidationChannel(bucket, prefix)
    /\ pc' = Succ("s3_input")
    /\ UNCHANGED << raised, cfg, sess, role, account_id, bucket, s3url, docker_image_name,
                    hyperparams, modelNames, loopNames, printed, calls,
                    results, world >>

(* ---------------- cell: hyperparams (lines 193-200) -------------------- *)
SetHyperparams ==
    /\ pc = "hyperparams"
    /\ hyperparams' = HyperParams
    /\ pc' = Succ("hyperparams")
    /\ UNCHANGED << raised, cfg, sess, role, account_id, bucket, s3url, docker_image_name,
                    s3_input_train, s3_input_validation, modelNames,
                    loopNames, printed, calls, results, world >>

(* ---------------- cell: algorithm mode (lines 219-230) ----------------- *)
Estimator(mode, image, r, hp, session) ==
    [mode |-> mode, image_name |-> image, role |-> r, hyperparameters |-> hp,
     session |-> session, job |-> ""]

\* estimator.fit({'train': ..., 'validation': ...})
FitArgs(est, train, validation) ==
    [op |-> "fit", mode |-> est.mode, hyperparameters |-> est.hyperparameters,
     inputs |-> [train |-> train, validation |-> validation]]

XgbFitCall ==
    /\ sess' = "sagemaker.Session"
    /\ xgb' = Estimator("algorithm", docker_image_name, role, hyperparams, sess')
    /\ Issue("xgb_fit", FitArgs(xgb', s3_input_train, s3_input_validation))
    /\ UNCHANGED << pc, cfg, role, dataNames, framework_xgb, endpoint_name,
                    xgb_predictor, loopNames, printed, world >>

XgbFitReturn ==
    /\ \/ /\ Returns("xgb_fit")
          /\ xgb' = [xgb EXCEPT !.job = "completed"]
          /\ pc' = Succ("xgb_fit")
       \/ /\ Raises("xgb_fit")
          /\ xgb' = [xgb EXCEPT !.job = "failed"]
    /\ UNCHANGED << cfg, sess, role, dataNames, framework_xgb, endpoint_name,
                    xgb_predictor, loopNames, printed, world >>

(* ---------------- cell: !pygmentize (line 258) ------------------------- *)
\* a shell escape: it shows the entry-point script and never raises
Pygmentize ==
    /\ pc = "pygmentize"
    /\ pc' = Succ("pygmentize")
    /\ UNCHANGED << raised, cfg, sess, role, dataNames, modelNames, loopNames, printed,
                    calls, results, world >>

(* ---------------- cell: framework mode (lines 274-289) ----------------- *)
FrameworkFitCall ==
    /\ framework_xgb' = Estimator("framework", docker_image_name, role,
                                  hyperparams, sess)
    /\ Issue("framework_fit",
             FitArgs(framework_xgb', s3_input_train, s3_input_validation))
    /\ UNCHANGED << pc, cfg, sess, role, dataNames, xgb, endpoint_name,
                    xgb_predictor, loopNames, printed, world >>

FrameworkFitReturn ==
    /\ \/ /\ Returns("framework_fit")
          /\ framework_xgb' = [framework_xgb EXCEPT !.job = "completed"]
          /\ pc' = Succ("framework_fit")
       \/ /\ Raises("framework_fit")
          /\ framework_xgb' = [framework_xgb EXCEPT !.job = "failed"]
    /\ UNCHANGED << cfg, sess, role, dataNames, xgb, endpoint_name, xgb_predictor,
                    loopNames, printed, world >>

(* ---------------- cell: endpoint_name (lines 308-311) ------------------ *)
SetEndpointName ==
    /\ pc = "endpoint_name"
    /\ \E t \in Timestamps : endpoint_name' = EndpointName(t)
    /\ Output("endpoint_name", <<"EndpointName = ">> \o endpoint_name')
    /\ pc' = Succ("endpoint_name")
    /\ UNCHANGED << raised, cfg, sess, role, dataNames, xgb, framework_xgb, xgb_predictor,
                    loopNames, calls, results, world >>

(* ---------------- cell: xgb.deploy (lines 320-323) --------------------- *)
DeployedEstimatorFramework == framework_xgb

\* the estimator deploy is called on
DeployedEstimator == xgb

DeployCall ==
    /\ Issue("deploy",
             [op |-> "deploy", mode |-> DeployedEstimator.mode,
              job |-> DeployedEstimator.job, endpoint_name |-> endpoint_name])
    /\ UNCHANGED << pc, cfg, sess, role, dataNames, modelNames, loopNames, printed,
                    world >>

Hosted(c) == [name |-> c.endpoint_name, mode |-> c.mode]

DeployReturn ==
    /\ \/ /\ Returns("deploy")
          /\ endpoints' = endpoints \cup {Hosted(LastCall)}
          /\ xgb_predictor' = [NoPredictor EXCEPT
                                  !.endpoint = LastCall.endpoint_name]
          /\ pc' = Succ("deploy")
       \/ /\ Raises("deploy")
          \* the endpoint may or may not have been created before the failure
          /\ endpoints' \in {endpoints, endpoints \cup {Hosted(LastCall)}}
          /\ UNCHANGED xgb_predictor
    /\ UNCHANGED << cfg, sess, role, dataNames, xgb, framework_xgb, endpoint_name,
                    loopNames, printed, buckets, objects >>

(* ---------------- cell: predictor settings (lines 341-343) ------------- *)
PredictorConfig ==
    /\ pc = "predictor_config"
    /\ xgb_predictor' = [xgb_predictor EXCEPT !.content_type = "text/csv",
                                              !.serializer = "csv_serializer",
                                              !.deserializer = "None"]
    /\ pc' = Succ("predictor_config")
    /\ UNCHANGED << raised, cfg, sess, role, dataNames, xgb, framework_xgb, endpoint_name,
                    loopNames, printed, calls, results, world >>

(* ---------------- cell: predict loop (lines 359-366) ------------------- *)
\* print(...), then with open(...) as f; a missing file raises at open
Open ==
    /\ pc = "open"
    /\ Output("predict_loop",
              <<"Sending test traffic to the endpoint ">> \o endpoint_name
                  \o <<". \nPlease wait for a minute...">>)
    /\ IF sample_status = "missing"
       THEN Throw("open") /\ UNCHANGED f
       ELSE /\ f' = ReadLines(test_sample)
            /\ pc' = Succ("open")
            /\ UNCHANGED raised
    /\ UNCHANGED << cfg, sess, role, dataNames, modelNames, row, payload,
                    response, slept, calls, results, world >>

\* for row in f: the next line, or the end of the loop and of the with block;
\* a file that does not decode never reaches its end
ForRow ==
    /\ pc = "for_row"
    /\ IF f = << >>
       THEN /\ sample_status = "readable"
            /\ pc' = Succ("for_row")
            /\ UNCHANGED << f, row >>
       ELSE row' = Head(f) /\ f' = Tail(f) /\ pc' = "predict"
    /\ UNCHANGED << raised, cfg, sess, role, dataNames, modelNames, payload,
                    response, slept, printed, calls, results, world >>

\* for row in f: reading on reaches bytes that do not decode
ForRowRaises ==
    /\ pc = "for_row"
    /\ sample_status = "undecodable"
    /\ Throw("for_row")
    /\ UNCHANGED << cfg, sess, role, dataNames, modelNames, loopNames, printed,
                    calls, results, world >>

PredictCall ==
    /\ payload' = rstrip(row, "\n")
    /\ Issue("predict",
             [op |-> "predict", endpoint |-> xgb_predictor.endpoint,
              content_type |-> xgb_predictor.content_type, data |-> payload'])
    /\ UNCHANGED << pc, cfg, sess, role, dataNames, modelNames, f, row, response,
                    slept, printed, world >>

PredictReturns ==
    /\ Returns("predict")
    /\ \E e \in endpoints : e.name = LastCall.endpoint
    /\ \E r \in Responses : response' = r
    /\ pc' = "print_response"
    /\ UNCHANGED << cfg, sess, role, dataNames, modelNames, f, row, payload, slept,
                    printed, world >>

PredictRaisesCleanup ==
    /\ pc = "predict"
    /\ InFlight
    /\ results' = Append(results, "raise")
    /\ Catch("predict")
    /\ pc' = "delete_endpoint"
    /\ UNCHANGED << cfg, sess, role, dataNames, modelNames, loopNames, printed,
                    calls, world >>

PredictRaises ==
    /\ Raises("predict")
    /\ UNCHANGED << cfg, sess, role, dataNames, modelNames, loopNames, printed,
                    world >>

PrintResponse ==
    /\ pc = "print_response"
    /\ Output("predict_loop", <<response>>)
    /\ pc' = "sleep"
    /\ UNCHANGED << raised, cfg, sess, role, dataNames, modelNames, loopNames, calls,
                    results, world >>

Sleep ==
    /\ pc = "sleep"
    /\ slept' = slept + 1
    /\ pc' = "for_row"
    /\ UNCHANGED << raised, cfg, sess, role, dataNames, modelNames, f, row, payload,
                    response, printed, calls, results, world >>

(* ---------------- cell: clean up (line 386) ---------------------------- *)
DeletedEndpointBase == <<EndpointBase>>

\* xgb_predictor.endpoint
DeletedEndpoint == xgb_predictor.endpoint

DeleteEndpointCall ==
    /\ Issue("delete_endpoint",
             [op |-> "delete_endpoint", session |-> sess,
              endpoint_name |-> DeletedEndpoint])
    /\ UNCHANGED << pc, cfg, sess, role, dataNames, modelNames, loopNames, printed,
                    world >>

DeleteEndpointReturn ==
    /\ \/ /\ Returns("delete_endpoint")
          /\ LastCall.session = "sagemaker.Session"
          /\ \E e \in endpoints : e.name = LastCall.endpoint_name
          /\ endpoints' = {e \in endpoints : e.name # LastCall.endpoint_name}
          /\ pc' = Succ("delete_endpoint")
       \/ /\ Raises("delete_endpoint")
          /\ UNCHANGED endpoints
    /\ UNCHANGED << cfg, sess, role, dataNames, modelNames, loopNames, printed,
                    buckets, objects >>

Next ==
    \/ SessionCall \/ SessionReturn
    \/ ReadCsv
    \/ GetCallerIdentityCall \/ GetCallerIdentityReturn
    \/ CreateBucketCall \/ CreateBucketReturns \/ CreateBucketRaises
    \/ UploadTrainCall \/ UploadTrainReturns \/ UploadTrainRaises
    \/ UploadValidationCall \/ UploadValidationReturn
    \/ GetImageUri
    \/ S3Input
    \/ SetHyperparams
    \/ XgbFitCall \/ XgbFitReturn
    \/ Pygmentize
    \/ FrameworkFitCall \/ FrameworkFitReturn
    \/ SetEndpointName
    \/ DeployCall \/ DeployReturn
    \/ PredictorConfig
    \/ Open
    \/ ForRow \/ ForRowRaises
    \/ PredictCall \/ PredictReturns \/ PredictRaises
    \/ PrintResponse
    \/ Sleep
    \/ DeleteEndpointCall \/ DeleteEndpointReturn

Spec == Init /\ [][Next]_vars

\* the kernel keeps executing the next statement, and every call returns
FairSpec == Spec /\ WF_vars(Next)

TypeOK == pc \in {Flow[i] : i \in 1..Len(Flow)} \cup
                 {"predict", "print_response", "sleep", "failed"}

(* ======================= properties of the run ========================= *)
Idx == 1..Len(calls)
Returned(i) == i <= Len(results)
Ok(i) == Returned(i) /\ results[i] = "ok"
Raised(i) == Returned(i) /\ results[i] = "raise"
IsOp(i, op) == calls[i].op = op
IsUpload(i, name) == IsOp(i, "upload") /\ calls[i].local_path.name = name
IsFit(i, mode) == IsOp(i, "fit") /\ calls[i].mode = mode
CountOp(op) == Cardinality({i \in Idx : IsOp(i, op)})

IsPredict(c) == c.op = "predict"
PredictCalls == SelectSeq(calls, IsPredict)
PredictIdx == {i \in Idx : IsOp(i, "predict")}

\* position of a call in the order the notebook text gives
Rank(i) ==
    CASE IsUpload(i, "train.csv") -> 1
      [] IsUpload(i, "validation.csv") -> 2
      [] IsFit(i, "algorithm") -> 3
      [] IsFit(i, "framework") -> 4
      [] IsOp(i, "deploy") -> 5
      [] IsOp(i, "predict") -> 6
      [] IsOp(i, "delete_endpoint") -> 7
      [] OTHER -> 0

\* lines of the test file, stated from the positions of its line
\* terminators: "\r\n", or a "\r" or "\n" that is not part of a "\r\n"
TermEnds(s) ==
    {q \in 1..Len(s) :
        \/ s[q] = "\n"
        \/ s[q] = "\r" /\ ~(q < Len(s) /\ s[q + 1] = "\n")}
TermStart(s, q) ==
    IF s[q] = "\n" /\ q > 1 /\ s[q - 1] = "\r" THEN q - 1 ELSE q
NumLines(s) ==
    Cardinality(TermEnds(s))
        + (IF s # << >> /\ Len(s) \notin TermEnds(s) THEN 1 ELSE 0)
NthTermEnd(s, k) ==
    CHOOSE q \in TermEnds(s) : Cardinality({r \in TermEnds(s) : r <= q}) = k
LineBody(s, k) ==
    LET from == IF k = 1 THEN 1 ELSE NthTermEnd(s, k - 1) + 1
        to == IF k <= Cardinality(TermEnds(s))
              THEN TermStart(s, NthTermEnd(s, k)) - 1
              ELSE Len(s)
    IN SubSeq(s, from, to)

PrintedResponses ==
    Cardinality({k \in 1..Len(printed) :
        /\ printed[k].cell = "predict_loop"
        /\ \E r \in Responses : printed[k].text = <<r>>})
BucketMessages ==
    Cardinality({k \in 1..Len(printed) : printed[k].text = BucketMessage})

StripSlash(p) ==
    IF p # << >> /\ p[Len(p)] = "/" THEN SubSeq(p, 1, Len(p) - 1) ELSE p

CallSteps == {"session", "get_caller_identity", "create_bucket",
              "upload_train", "upload_validation", "xgb_fit",
              "framework_fit", "deploy", "delete_endpoint"}
FixedCalls == Cardinality(CallSteps)

Terminated == pc \in {"done", "failed"}

\* C1: the external calls are issued in the order upload train.csv, upload
\* validation.csv, algorithm-mode fit, framework-mode fit, deploy, predict
\* requests, delete_endpoint; each is issued only after the previous call has
\* returned normally; no predict precedes the return of deploy or follows
\* delete_endpoint; deploy follows the completion of the algorithm-mode job.
C1_CallOrder ==
    /\ Len(calls) - Len(results) \in {0, 1}
    /\ \A i \in Idx : i < Len(calls) => Returned(i)
    /\ \A i, j \in Idx :
          i < j => /\ Rank(i) <= Rank(j)
                   /\ Rank(i) = Rank(j) => Rank(i) \in {0, 6}
    /\ \A j \in Idx :
          /\ Rank(j) \in 2..5 => \E i \in 1..(j - 1) : Rank(i) = Rank(j) - 1 /\ Ok(i)
          /\ Rank(j) \in 6..7 => \E i \in 1..(j - 1) : Rank(i) = 5 /\ Ok(i)
          /\ Rank(j) = 6 => \A i \in 1..(j - 1) : Rank(i) # 7
          /\ Rank(j) = 5 => \E i \in 1..(j - 1) : IsFit(i, "algorithm") /\ Ok(i)

C1_Witness ==
    /\ pc = "done"
    /\ Cardinality(PredictIdx) >= 2
    /\ \E i \in Idx : IsOp(i, "delete_endpoint") /\ Ok(i)

\* C2: create_bucket is called at most once, and exactly once in a run that
\* got past the bucket cell; whatever it raises is caught: the message is
\* printed (once) exactly when it raised, the run does not stop there, and the
\* next call is the upload of train.csv, never a second create_bucket.
C2_BucketCreationCaught ==
    /\ CountOp("create_bucket") <= 1
    /\ (\E i \in Idx : Rank(i) >= 1) => CountOp("create_bucket") = 1
    /\ pc \notin {"session", "read_csv", "get_caller_identity",
                  "create_bucket", "failed"} => CountOp("create_bucket") = 1
    /\ (\A i \in Idx : IsOp(i, "create_bucket") => ~Returned(i))
          => BucketMessages = 0
    /\ \A i \in Idx :
          IsOp(i, "create_bucket") /\ Returned(i) =>
              /\ BucketMessages = (IF Raised(i) THEN 1 ELSE 0)
              /\ pc # "create_bucket"
              /\ i = Len(calls) => pc = "upload_train"
              /\ i < Len(calls) => IsUpload(i + 1, "train.csv")

C2_Witness ==
    /\ \E i \in Idx : IsOp(i, "create_bucket") /\ Raised(i)
    /\ \E j \in Idx : IsUpload(j, "validation.csv") /\ Ok(j)
    /\ BucketMessages = 1

C3_StopsAtFailure ==
    \A i \in Idx :
        Raised(i) /\ ~IsOp(i, "create_bucket") =>
            /\ i = Len(calls)
            /\ pc = "failed"

\* C3: when a call other than create_bucket raises, the run stops at that
\* call: it is the last call ever issued (no retry, no later call), and no
\* statement executes once the run has stopped.
C3_FailuresPropagate ==
    /\ []C3_StopsAtFailure
    /\ [][pc = "failed" => UNCHANGED vars]_vars

C3_Witness ==
    /\ pc = "failed"
    /\ \E i \in Idx : IsOp(i, "predict") /\ Raised(i)
    /\ \E j \in Idx : IsOp(j, "predict") /\ Ok(j)

\* C4: the k-th predict request carries the k-th line of the test file
\* without its line terminator, whichever of "\n", "\r\n", "\r" ends the line
\* (blank lines give an empty payload, no payload holds a terminator), one
\* request per line once the loop has finished, and request k+1 is issued
\* only after response k was received and printed and the delay has elapsed.
C4_OneRequestPerLine ==
    /\ Len(PredictCalls) <= NumLines(test_sample)
    /\ \A k \in 1..Len(PredictCalls) :
          /\ PredictCalls[k].data = LineBody(test_sample, k)
          /\ \A q \in 1..Len(PredictCalls[k].data) :
                PredictCalls[k].data[q] \notin {"\n", "\r"}
    /\ (pc \in {"delete_endpoint", "done"} \/ CountOp("delete_endpoint") > 0)
          => Len(PredictCalls) = NumLines(test_sample)
    /\ Len(PredictCalls) <= slept + 1
    /\ slept <= PrintedResponses
    /\ PrintedResponses <= Cardinality({i \in PredictIdx : Ok(i)})
    /\ Cardinality({i \in PredictIdx : ~Returned(i)}) <= 1

C4_Witness ==
    /\ pc = "done"
    /\ Len(PredictCalls) >= 2
    /\ \E k \in 1..Len(PredictCalls) : PredictCalls[k].data = << >>
    /\ \E k \in 1..Len(PredictCalls) : PredictCalls[k].data # << >>
    /\ \E q \in 1..Len(test_sample) : test_sample[q] = "\r"

\* C5: delete_endpoint is given the name that was computed before deploy and
\* passed to deploy, a base name followed by a time stamp; the name is the
\* value of endpoint_name from deploy on; when the run finished with every
\* call successful, no endpoint is left.
C5_TeardownDeletesOwnEndpoint ==
    /\ \A j \in Idx :
          IsOp(j, "deploy") =>
              /\ calls[j].endpoint_name = endpoint_name
              /\ Len(endpoint_name) = 2
              /\ endpoint_name[1] = "demo-xgboost-customer-churn-"
              /\ endpoint_name[2] \in Timestamps
    /\ \A i \in Idx :
          IsOp(i, "delete_endpoint") =>
              /\ calls[i].endpoint_name = endpoint_name
              /\ \E j \in 1..(i - 1) :
                    /\ IsOp(j, "deploy")
                    /\ calls[j].endpoint_name = calls[i].endpoint_name
    /\ (pc = "done" /\ \A i \in Idx : Ok(i)) => endpoints = {}

C5_Witness ==
    /\ pc = "done"
    /\ \A i \in Idx : Ok(i)
    /\ \E i \in Idx : IsOp(i, "delete_endpoint")
    /\ PredictIdx # {}

\* the channel of a fit call points at the place file name was uploaded to
ChannelMatchesUpload(ch, name) ==
    \E u \in Idx :
        /\ IsUpload(u, name)
        /\ Ok(u)
        /\ StripSlash(ch.s3_data) = StripSlash(calls[u].desired_s3_uri)
        /\ \E o \in objects :
              /\ Len(o) > Len(ch.s3_data)
              /\ SubSeq(o, 1, Len(ch.s3_data)) = ch.s3_data
              /\ o[Len(o)] = name

\* C6: every fit call carries the hyperparameters of the hyperparams cell and
\* the channels train and validation, content type csv, each located at the
\* path its file was uploaded to; the two fit calls carry the same mapping
\* and channels, which are still the values of the notebook's variables.
C6_SameJobInputs ==
    /\ \A i \in Idx :
          IsOp(i, "fit") =>
              /\ calls[i].hyperparameters = hyperparams
              /\ calls[i].hyperparameters.num_round = 600
              /\ calls[i].hyperparameters.objective = "binary:logistic"
              /\ DOMAIN calls[i].inputs = {"train", "validation"}
              /\ calls[i].inputs.train = s3_input_train
              /\ calls[i].inputs.validation = s3_input_validation
              /\ calls[i].inputs.train.content_type = "csv"
              /\ calls[i].inputs.validation.content_type = "csv"
              /\ ChannelMatchesUpload(calls[i].inputs.train, "train.csv")
              /\ ChannelMatchesUpload(calls[i].inputs.validation,
                                      "validation.csv")
    /\ \A i, j \in Idx :
          IsOp(i, "fit") /\ IsOp(j, "fit") =>
              /\ calls[i].hyperparameters = calls[j].hyperparameters
              /\ calls[i].inputs = calls[j].inputs

C6_Witness ==
    /\ \E i \in Idx : IsFit(i, "algorithm") /\ Ok(i)
    /\ \E j \in Idx : IsFit(j, "framework") /\ Ok(j)

\* C7: deploy is called on the algorithm-mode estimator, after its job and
\* the framework-mode job have both completed; every endpoint and every
\* predict request of the run is served by the algorithm-mode model.
C7_AlgorithmModelDeployed ==
    /\ \A i \in Idx :
          IsOp(i, "deploy") =>
              /\ calls[i].mode = "algorithm"
              /\ calls[i].job = "completed"
              /\ \E j \in 1..(i - 1) : IsFit(j, "framework") /\ Ok(j)
              /\ \E j \in 1..(i - 1) : IsFit(j, "algorithm") /\ Ok(j)
    /\ \A e \in endpoints : e.mode = "algorithm"
    /\ \A i \in PredictIdx :
          \E j \in 1..(i - 1) :
              /\ IsOp(j, "deploy")
              /\ Ok(j)
              /\ calls[j].mode = "algorithm"
              /\ calls[j].endpoint_name = calls[i].endpoint

C7_Witness ==
    /\ \E i \in PredictIdx : Ok(i)
    /\ \E e \in endpoints : e.name = endpoint_name
    /\ framework_xgb.job = "completed"

\* C8: create_bucket gets the bucket 'sagemaker-<region>-<account>'; in
\* us-east-1 nothing else, in any other region a LocationConstraint equal to
\* the region; one of the two calls is made, never both.
C8_RegionBranch ==
    /\ \A i \in Idx :
          IsOp(i, "create_bucket") =>
              /\ calls[i].Bucket =
                     <<"sagemaker-", region_name, "-", caller_account>>
              /\ region_name = "us-east-1" => ~calls[i].hasConfig
              /\ region_name # "us-east-1" =>
                     /\ calls[i].hasConfig
                     /\ calls[i].LocationConstraint = region_name
    /\ CountOp("create_bucket") <= 1
    /\ (pc = "failed" /\ Rank(Len(calls)) >= 1) => CountOp("create_bucket") = 1
    /\ Pos(IF Terminated THEN "create_bucket" ELSE
            IF pc \in {"predict", "print_response", "sleep"} THEN "for_row"
            ELSE pc) > Pos("create_bucket")
          => CountOp("create_bucket") = 1

C8_Witness ==
    /\ region_name # "us-east-1"
    /\ \E i \in Idx : IsOp(i, "create_bucket") /\ calls[i].hasConfig /\ Ok(i)
    /\ objects # {}

\* C9: once deploy has succeeded and a predict request raised (or opening
\* or reading the test file did), the run has
\* stopped, delete_endpoint is never called and the endpoint still exists;
\* delete_endpoint is called, and the endpoint gone, only when a request was
\* sent for every line and every request succeeded.
C9_NoTeardownOnFailure ==
    /\ (/\ \E d \in Idx : IsOp(d, "deploy") /\ Ok(d)
        /\ \E p \in PredictIdx : Raised(p))
          => /\ CountOp("delete_endpoint") = 0
             /\ pc = "failed"
             /\ \E e \in endpoints : e.name = endpoint_name
    /\ (/\ \E d \in Idx : IsOp(d, "deploy") /\ Ok(d)
        /\ \E x \in 1..Len(raised) : raised[x].step \in {"open", "for_row"})
          => /\ CountOp("delete_endpoint") = 0
             /\ pc = "failed"
             /\ \E e \in endpoints : e.name = endpoint_name
    /\ (\/ CountOp("delete_endpoint") > 0
        \/ /\ \E d \in Idx : IsOp(d, "deploy") /\ Ok(d)
           /\ \A e \in endpoints : e.name # endpoint_name)
          => /\ \A p \in PredictIdx : Ok(p)
             /\ Cardinality(PredictIdx) = NumLines(test_sample)

C9_Witness ==
    /\ pc = "failed"
    /\ \E p \in PredictIdx : Raised(p)
    /\ \E p \in PredictIdx : Ok(p)
    /\ \E e \in endpoints : e.name = endpoint_name

C10_Bounded ==
    /\ Len(calls) <= NumLines(test_sample) + FixedCalls
    /\ pc = "done" => Len(calls) = NumLines(test_sample) + FixedCalls

\* C10 as stated: the number of calls is the number of lines plus a fixed
\* number, and a run that has ended ended at delete_endpoint or at the first
\* call that failed.
C10_EndsAtFirstFailure ==
    /\ C10_Bounded
    /\ Terminated =>
          \/ CountOp("delete_endpoint") = 1
          \/ /\ pc = "failed"
             /\ Len(raised) = 1

C10_EndsAtFirstUncaughtFailure ==
    Terminated =>
        \/ CountOp("delete_endpoint") = 1
        \/ /\ pc = "failed"
           /\ raised # << >>
           /\ ~raised[Len(raised)].caught
           /\ \A x \in 1..(Len(raised) - 1) :
                 raised[x].caught /\ raised[x].step = "create_bucket"

\* C10 amended: every run ends; it issues at most (lines + fixed number)
\* calls; it ends at delete_endpoint or at the first call that failed other
\* than create_bucket, whose failure is caught.
C10_Terminates ==
    /\ <>Terminated
    /\ []C10_Bounded
    /\ []C10_EndsAtFirstUncaughtFailure

C10_Witness ==
    /\ pc = "failed"
    /\ \E i \in Idx : IsOp(i, "create_bucket") /\ Raised(i)
    /\ \E p \in PredictIdx : Raised(p)
    /\ Len(calls) = NumLines(test_sample) + FixedCalls - 1
============================================================================
